---------------------------- MODULE Spec2Model ----------------------------
(***************************************************************************)
(* A model of s-index/scholar_scraper.py: the metrics extractor            *)
(* (get_h_index), the paginated publication scraper (get_publications),    *)
(* the three views (print_publications_sorted,                             *)
(* find_undercited_publications, print_undercited_publications) and the    *)
(* __main__ flow with its summary block.                                   *)
(*                                                                         *)
(* Texts that the code inspects character by character (URLs, year and     *)
(* citation texts) are sequences of one-character strings.  Texts the code *)
(* only copies (titles, authors, venues, metric cells) are opaque values.  *)
(***************************************************************************)
EXTENDS Integers, Sequences, FiniteSets, TLC

VARIABLES
    pc,             \* position of the flow being run
    scholar_url,    \* argument of get_publications / get_h_index
    catalogue,      \* which rows the server holds for the profile
    user_id,        \* get_publications: user_match.group(1)
    lang,           \* get_publications: lang
    start,          \* get_publications: start
    accum,          \* get_publications: its local list `publications`
    fetches,        \* requests issued by the pagination loop, in order
    served,         \* number of rows of each page served, in order
    publications,   \* __main__: publications (value returned by get_publications)
    profile,        \* the profile page served to get_h_index
    metrics,        \* __main__: metrics (value returned by get_h_index)
    row,            \* one <tr class=gsc_a_tr> handed to the row extraction
    pub,            \* the record built from row
    undercited,     \* value returned by find_undercited_publications
    current_year,   \* find_undercited_publications: its argument current_year
    out             \* the blocks printed so far, in order

vars == <<pc, scholar_url, catalogue, user_id, lang, start, accum, fetches, served,
          publications, profile, metrics, row, pub, undercited,
          current_year, out>>

-----------------------------------------------------------------------------
(* Bounds of the model.                                                    *)

MaxCiteLen == 2     \* longest citation text handed to the row extraction
MaxPages == 3       \* pages the modelled server serves before the model stops
MaxCells == 7       \* most td.gsc_rsb_std cells on a profile page
MaxPubs == 3        \* longest publication list handed to the views

(* Program constants.                                                      *)

page_size == 100
DefaultCurrentYear == 2025

-----------------------------------------------------------------------------
(* Texts.                                                                  *)

\* Characters for which int() reads a digit value (Unicode category Nd).
DecimalChars == {"0", "1", "2", "3", "4", "5", "6", "7", "8", "9"}

\* "^2" stands for U+00B2 SUPERSCRIPT TWO: str.isdigit() accepts it
\* (Numeric_Type=Digit) and int() rejects it (it is not in category Nd).
SuperscriptTwo == "^2"

IsDigitChar(c) == c \in DecimalChars \cup {SuperscriptTwo}

DigitValue(c) ==
    CASE c = "0" -> 0 [] c = "1" -> 1 [] c = "2" -> 2 [] c = "3" -> 3
      [] c = "4" -> 4 [] c = "5" -> 5 [] c = "6" -> 6 [] c = "7" -> 7
      [] c = "8" -> 8 [] c = "9" -> 9

\* str.isdigit(): non-empty and every character is a digit character.
isdigit(s) == Len(s) > 0 /\ \A i \in 1..Len(s) : IsDigitChar(s[i])

\* The part of an int() literal after its optional sign.
IntBody(s) == IF Len(s) > 0 /\ s[1] \in {"+", "-"} THEN Tail(s) ELSE s

\* int() accepts decimal digits with single underscores between digits.
IntBodyValid(b) ==
    /\ Len(b) > 0
    /\ b[1] \in DecimalChars
    /\ b[Len(b)] \in DecimalChars
    /\ \A i \in 1..Len(b) : b[i] \in DecimalChars \cup {"_"}
    /\ \A i \in 1..(Len(b) - 1) : ~(b[i] = "_" /\ b[i + 1] = "_")

RECURSIVE IntBodyValue(_, _)
IntBodyValue(b, acc) ==
    IF b = <<>> THEN acc
    ELSE IF Head(b) = "_" THEN IntBodyValue(Tail(b), acc)
    ELSE IntBodyValue(Tail(b), 10 * acc + DigitValue(Head(b)))

\* int(s) for a text without surrounding white space (get_text(strip=True)
\* has removed it): ok = FALSE stands for ValueError.
int(s) ==
    IF IntBodyValid(IntBody(s))
    THEN [ok |-> TRUE,
          val |-> IF Len(s) > 0 /\ s[1] = "-"
                  THEN 0 - IntBodyValue(IntBody(s), 0)
                  ELSE IntBodyValue(IntBody(s), 0)]
    ELSE [ok |-> FALSE, val |-> 0]

NA == <<"N", "/", "A">>

\* An element looked up with find(): absent (None) or present with its text.
Absent == [present |-> FALSE, text |-> <<>>]
Elem(t) == [present |-> TRUE, text |-> t]

-----------------------------------------------------------------------------
(* get_publications, lines 101-144: one row to one publication record.     *)

\* A row is [title, grays, year, cites]: the a.gsc_a_at element, the texts
\* of its div.gs_gray elements in document order, the span.gsc_a_h element
\* and the a.gsc_a_ac element.

\* lines 134-142
citations_of(e) ==
    IF ~e.present THEN 0
    ELSE IF e.text = <<>> THEN 0
    ELSE IF int(e.text).ok THEN int(e.text).val
    ELSE 0

\* lines 126-131
year_of(e) ==
    IF ~e.present THEN NA
    ELSE IF e.text = <<>> THEN NA ELSE e.text

\* lines 102-144
ExtractRow(r) ==
    [title     |-> IF r.title.present THEN r.title.text ELSE NA,
     authors   |-> IF Len(r.grays) > 0 THEN r.grays[1] ELSE NA,
     venue     |-> IF Len(r.grays) > 1 THEN r.grays[2] ELSE NA,
     year      |-> year_of(r.year),
     citations |-> citations_of(r.cites)]

-----------------------------------------------------------------------------
(* Inputs of the row extraction.                                           *)

CiteAlphabet == {"-", "+", "_", "0", "7", "x", SuperscriptTwo}

RECURSIVE TextsUpTo(_, _)
TextsUpTo(alphabet, n) ==
    IF n = 0 THEN {<<>>}
    ELSE LET shorter == TextsUpTo(alphabet, n - 1)
         IN  shorter \cup {Append(t, c) : t \in shorter, c \in alphabet}

CiteTexts == TextsUpTo(CiteAlphabet, MaxCiteLen)

RowTitles == {Absent, Elem(<<"T">>)}
RowGrays == {<<>>, <<<<"a">>>>, <<<<"a">>, <<"v">>>>}
RowYears == {Absent, Elem(<<>>), Elem(<<"2", "0", "2", "0">>)}
RowCites == {Absent} \cup {Elem(t) : t \in CiteTexts}

NoPub == [title |-> <<>>, authors |-> <<>>, venue |-> <<>>, year |-> <<>>,
          citations |-> 0]
NoRow == [title |-> Absent, grays |-> <<>>, year |-> Absent, cites |-> Absent]
\* Python values: None, a list, a dict (the set of its <<key, value>> items).
NoResult == [type |-> "none", list |-> <<>>, dict |-> {}]
ListResult(l) == [type |-> "list", list |-> l, dict |-> {}]
DictResult(d) == [type |-> "dict", list |-> <<>>, dict |-> d]
ErrorResult(msg) == DictResult({<<"error", msg>>})
Keys(d) == {kv[1] : kv \in d}
Get(d, k) == (CHOOSE kv \in d : kv[1] = k)[2]
\* isinstance(x, dict) and "error" in x
HasError(x) == x.type = "dict" /\ "error" \in Keys(x.dict)

-----------------------------------------------------------------------------
(* SpecRow: the row extraction applied to every row of the input sets.     *)

InitRow ==
    /\ pc = "row"
    /\ scholar_url = <<>> /\ catalogue = "none" /\ user_id = <<>> /\ lang = <<>> /\ start = 0
    /\ accum = <<>> /\ fetches = <<>> /\ served = <<>>
    /\ publications = NoResult /\ profile = NoResult /\ metrics = NoResult
    /\ row \in [title : RowTitles, grays : RowGrays, year : RowYears,
                cites : RowCites]
    /\ pub = NoPub /\ undercited = <<>> /\ current_year = 0 /\ out = <<>>

DoExtractRow ==
    /\ pc = "row"
    /\ pub' = ExtractRow(row)
    /\ pc' = "row_done"
    /\ UNCHANGED <<scholar_url, catalogue, user_id, lang, start, accum, fetches, served,
                   publications, profile, metrics, row, undercited,
                   current_year, out>>

NextRow == DoExtractRow

SpecRow == InitRow /\ [][NextRow]_vars

\* C9: every publication record built from a row has an integer citation
\* count >= 0, whatever the citation indicator's text (absent, empty,
\* non-numeric, or any text int() accepts, a leading minus sign included).
C9_CitationsNonNegative ==
    pc = "row_done" => (pub.citations \in Int /\ pub.citations >= 0)

-----------------------------------------------------------------------------
(* get_h_index, lines 15-53.                                               *)

\* A profile page is [fetch, table, cells, name]: how requests.get and
\* raise_for_status end ("ok", "ConnectionError", "HTTPError"), whether a
\* table#gsc_rsb_st exists, the td.gsc_rsb_std cells of the whole document in
\* document order (each with in_table: whether it lies inside that table),
\* and the div#gsc_prf_in element.

MetricKeys == <<"citations_all", "citations_recent", "h_index_all",
                "h_index_recent", "i10_index_all", "i10_index_recent">>

RequestFailed(kind) == ErrorResult(<<"Request failed", kind>>)

\* line 30 with the cells looked up inside the table only
metric_values_in_table(page) ==
    LET idx == {i \in 1..Len(page.cells) : page.cells[i].in_table}
        Nth[n \in 0..Len(page.cells)] ==
            IF n = 0 THEN 0
            ELSE CHOOSE i \in idx : i > Nth[n - 1] /\ \A j \in idx : j > Nth[n - 1] => i <= j
    IN  [n \in 1..Cardinality(idx) |-> page.cells[Nth[n]]]

\* line 30: soup.find_all('td', class_='gsc_rsb_std') searches the document
metric_values(page) == page.cells

\* lines 35-40
results_of(cells) == {<<MetricKeys[i], cells[i].text>> : i \in 1..6}

\* lines 44-46: results with the name added when the element exists
WithName(d, name) ==
    IF name.present THEN d \cup {<<"name", name.text>>} ELSE d

\* lines 15-53
get_h_index(page) ==
    IF page.fetch # "ok" THEN RequestFailed(page.fetch)
    ELSE IF ~page.table
    THEN ErrorResult(<<"Could not find metrics table on the page">>)
    ELSE IF Len(metric_values(page)) >= 6
    THEN DictResult(WithName(results_of(metric_values(page)), page.name))
    ELSE ErrorResult(<<"Expected 6 metric values, found",
                       ToString(Len(metric_values(page)))>>)

-----------------------------------------------------------------------------
(* SpecMetrics: get_h_index applied to every profile page of the input set *)

FetchOutcomes == {"ok", "ConnectionError", "HTTPError"}

CellText(i) == <<"cell", ToString(i)>>

\* The page with the given cells; without a table no cell is inside one.
ProfilePage(f, t, nm, inside) ==
    [fetch |-> f, table |-> t, name |-> nm,
     cells |-> [i \in 1..Len(inside) |->
                   [in_table |-> t /\ inside[i], text |-> CellText(i)]]]

\* page is a profile page with up to MaxCells cells.
IsProfilePage(page) ==
    \E f \in FetchOutcomes, t \in BOOLEAN, nm \in {Absent, Elem(<<"name">>)} :
        \E n \in 0..MaxCells :
            \E inside \in [1..n -> BOOLEAN] :
                page = ProfilePage(f, t, nm, inside)

InitMetrics ==
    /\ pc = "get_h_index"
    /\ scholar_url = <<>> /\ catalogue = "none" /\ user_id = <<>> /\ lang = <<>> /\ start = 0
    /\ accum = <<>> /\ fetches = <<>> /\ served = <<>>
    /\ publications = NoResult
    /\ IsProfilePage(profile)
    /\ metrics = NoResult
    /\ row = NoRow /\ pub = NoPub /\ undercited = <<>> /\ current_year = 0
    /\ out = <<>>

DoGetHIndex ==
    /\ pc = "get_h_index"
    /\ metrics' = get_h_index(profile)
    /\ pc' = "metrics_done"
    /\ UNCHANGED <<scholar_url, catalogue, user_id, lang, start, accum, fetches, served,
                   publications, profile, row, pub, undercited, current_year,
                   out>>

NextMetrics == DoGetHIndex

SpecMetrics == InitMetrics /\ [][NextMetrics]_vars

MetricsDone == pc = "metrics_done" /\ profile.fetch = "ok"

\* C7: on a fetched page get_h_index returns an error when the statistics
\* table is absent, an error reporting the count found when fewer than 6
\* value cells are found within the table, and otherwise a result holding the
\* first six cells by position in the order of MetricKeys; the name element
\* decides only whether the name field is present.
C7_MetricsByPosition ==
    MetricsDone =>
        LET inside == metric_values_in_table(profile)
        IN  /\ ~profile.table => HasError(metrics)
            /\ (profile.table /\ Len(inside) < 6) =>
                   /\ HasError(metrics)
                   /\ Get(metrics.dict, "error")[2] = ToString(Len(inside))
            /\ (profile.table /\ Len(inside) >= 6) =>
                   /\ ~HasError(metrics)
                   /\ \A i \in 1..6 : Get(metrics.dict, MetricKeys[i]) = inside[i].text
                   /\ ("name" \in Keys(metrics.dict)) = profile.name.present

\* The part of C7 that the code keeps: the same with the cells counted over
\* the whole document, as line 30 collects them.
C7_MetricsByPositionInDocument ==
    MetricsDone =>
        LET found == profile.cells
        IN  /\ ~profile.table => HasError(metrics)
            /\ (profile.table /\ Len(found) < 6) =>
                   /\ HasError(metrics)
                   /\ Get(metrics.dict, "error") =
                          <<"Expected 6 metric values, found", ToString(Len(found))>>
            /\ (profile.table /\ Len(found) >= 6) =>
                   /\ ~HasError(metrics)
                   /\ \A i \in 1..6 : Get(metrics.dict, MetricKeys[i]) = found[i].text
                   /\ ("name" \in Keys(metrics.dict)) = profile.name.present

\* A table with four cells inside it and two more cells elsewhere on the page.
C7_FourInsideTwoOutside ==
    /\ MetricsDone
    /\ profile.table
    /\ Len(metric_values_in_table(profile)) = 4
    /\ Len(profile.cells) = 6
    /\ ~HasError(metrics)

-----------------------------------------------------------------------------
(* The views.  A publication list is a sequence of records; a record is    *)
(* the dict built by the row extraction, so the position in the            *)
(* accumulated list identifies the dict object.  Lists derived from it     *)
(* (sorted copies, the undercited selection) hold references to the same   *)
(* objects: the selection is kept as a sequence of positions.              *)

PrintedFields == {"title", "authors", "venue", "year", "citations"}

\* The fields lines 179-183 print.
Printed(p) == [k \in PrintedFields |-> p[k]]

\* sorted(..., key=..., reverse=True) on a list of [key, item] pairs.  The
\* library sort is stable: the result lists the keys from the largest down,
\* and under each key its items in their order in the argument.
WithKey(pairs, k) == SelectSeq(pairs, LAMBDA x : x.key = k)

Largest(keys) == CHOOSE k \in keys : \A other \in keys : other <= k

Reversed(s) == [i \in 1..Len(s) |-> s[Len(s) + 1 - i]]

RECURSIVE ByKeysDescending(_, _)
ByKeysDescending(pairs, keys) ==
    IF keys = {} THEN <<>>
    ELSE WithKey(pairs, Largest(keys))
             \o ByKeysDescending(pairs, keys \ {Largest(keys)})

\* The same with the items of equal key in the opposite order.
RECURSIVE ByKeysDescendingUnstable(_, _)
ByKeysDescendingUnstable(pairs, keys) ==
    IF keys = {} THEN <<>>
    ELSE Reversed(WithKey(pairs, Largest(keys)))
             \o ByKeysDescendingUnstable(pairs, keys \ {Largest(keys)})

SortedDescending(pairs) ==
    ByKeysDescending(pairs, {pairs[i].key : i \in 1..Len(pairs)})

SortedDescendingUnstable(pairs) ==
    ByKeysDescendingUnstable(pairs, {pairs[i].key : i \in 1..Len(pairs)})

Items(pairs) == [i \in 1..Len(pairs) |-> pairs[i].item]

\* line 172 with a sort that does not keep the order of equal keys
sorted_pubs_unstable(pubs) ==
    Items(SortedDescendingUnstable(
        [i \in 1..Len(pubs) |-> [key |-> pubs[i].citations, item |-> pubs[i]]]))

\* line 172
sorted_pubs_of(pubs) ==
    Items(SortedDescending(
        [i \in 1..Len(pubs) |-> [key |-> pubs[i].citations, item |-> pubs[i]]]))

\* lines 160-184: the block print_publications_sorted prints
print_publications_sorted(p) ==
    IF HasError(p)
    THEN [block |-> "error_line", error |-> Get(p.dict, "error")]
    ELSE LET sorted_pubs == sorted_pubs_of(p.list)
         IN  [block |-> "ranking", total |-> Len(sorted_pubs),
              entries |-> [i \in 1..Len(sorted_pubs) |-> Printed(sorted_pubs[i])]]

\* line 216 also overwriting the citation count
SetAgeClobber(p, age) ==
    [k \in DOMAIN p \cup {"age"} |-> IF k \in {"age", "citations"} THEN age ELSE p[k]]

\* line 216: pub['age'] = age
SetAge(p, age) ==
    [k \in DOMAIN p \cup {"age"} |-> IF k = "age" THEN age ELSE p[k]]

\* line 215
is_undercited(age, citations) == age > 0 /\ citations < age

\* lines 204-215 for the record p: "skip" (line 208), "raise" (the
\* ValueError of int(year_str) at line 210), "select" or "pass" (line 215).
Verdict(p, cy) ==
    IF p.year = NA \/ ~isdigit(p.year) THEN "skip"
    ELSE IF ~int(p.year).ok THEN "raise"
    ELSE IF is_undercited(cy - int(p.year).val, p.citations) THEN "select"
    ELSE "pass"

\* lines 203-217: the loop over the positions lo..hi.  The loop handles each
\* record on its own and ends at the first that raises, so the positions
\* are split in halves: the second half counts only if the first did not
\* raise.
RECURSIVE ScanUndercited(_, _, _, _)
ScanUndercited(pubs, lo, hi, cy) ==
    IF lo > hi THEN [raised |-> FALSE, selected |-> <<>>]
    ELSE IF lo = hi
    THEN [raised |-> Verdict(pubs[lo], cy) = "raise",
          selected |-> IF Verdict(pubs[lo], cy) = "select" THEN <<lo>> ELSE <<>>]
    ELSE LET mid == (lo + hi) \div 2
             first == ScanUndercited(pubs, lo, mid, cy)
             second == ScanUndercited(pubs, mid + 1, hi, cy)
         IN  IF first.raised THEN first
             ELSE [raised |-> second.raised,
                   selected |-> first.selected \o second.selected]

\* lines 187-219: whether the call raised, the list after the call (line
\* 216 has set age on the selected records) and the positions selected
find_undercited_publications(p, cy) ==
    IF HasError(p) THEN [raised |-> FALSE, pubs |-> p.list, selected |-> <<>>]
    ELSE LET scan == ScanUndercited(p.list, 1, Len(p.list), cy)
             chosen == {scan.selected[k] : k \in 1..Len(scan.selected)}
         IN  [raised |-> scan.raised,
              pubs |-> [i \in 1..Len(p.list) |->
                           IF i \in chosen
                           THEN SetAge(p.list[i], cy - int(p.list[i].year).val)
                           ELSE p.list[i]],
              selected |-> scan.selected]

\* lines 237-239 with a sort that does not keep the order of equal keys
sorted_undercited_unstable(pubs) ==
    Items(SortedDescendingUnstable(
        [i \in 1..Len(pubs) |->
            [key |-> pubs[i].age - pubs[i].citations, item |-> pubs[i]]]))

\* lines 237-239
sorted_undercited_of(pubs) ==
    Items(SortedDescending(
        [i \in 1..Len(pubs) |->
            [key |-> pubs[i].age - pubs[i].citations, item |-> pubs[i]]]))

\* lines 245-251: what is printed of one entry
PrintedUndercited(p) ==
    [title |-> p.title, authors |-> p.authors, venue |-> p.venue,
     year |-> p.year, age |-> p.age, citations |-> p.citations,
     deficit |-> p.age - p.citations]

\* lines 222-252: the block print_undercited_publications prints
print_undercited_publications(undercited_pubs) ==
    IF undercited_pubs = <<>>
    THEN [block |-> "undercited_none"]
    ELSE LET sorted_undercited == sorted_undercited_of(undercited_pubs)
         IN  [block |-> "undercited", total |-> Len(sorted_undercited),
              entries |-> [i \in 1..Len(sorted_undercited) |->
                              PrintedUndercited(sorted_undercited[i])]]

\* The objects a selection refers to.
Deref(pubs, selected) == [i \in 1..Len(selected) |-> pubs[selected[i]]]

-----------------------------------------------------------------------------
(* The summary block of __main__, lines 291-302.                           *)

RECURSIVE Gcd(_, _)
Gcd(a, b) == IF b = 0 THEN a ELSE Gcd(b, a % b)

Abs(n) == IF n < 0 THEN 0 - n ELSE n

\* n / d for d > 0 as a fraction in lowest terms.  The code divides in
\* floating point; the model keeps the exact quotient.
Quotient(n, d) ==
    LET g == Gcd(Abs(n), d)
    IN  [num |-> n \div g, den |-> d \div g]

Zero == [num |-> 0, den |-> 1]

\* sum(pub['citations'] for pub in pubs[lo..hi]), by halves
RECURSIVE SumCitations(_, _, _)
SumCitations(pubs, lo, hi) ==
    IF lo > hi THEN 0
    ELSE IF lo = hi THEN pubs[lo].citations
    ELSE SumCitations(pubs, lo, (lo + hi) \div 2)
             + SumCitations(pubs, (lo + hi) \div 2 + 1, hi)

\* line 292
total_citations_of(pubs) == SumCitations(pubs, 1, Len(pubs))

\* line 293 dividing by one more than the number of publications
avg_citations_wrong(pubs) ==
    IF pubs # <<>> THEN Quotient(total_citations_of(pubs), Len(pubs) + 1) ELSE Zero

\* line 293
avg_citations_of(pubs) ==
    IF pubs # <<>> THEN Quotient(total_citations_of(pubs), Len(pubs)) ELSE Zero

\* line 291
summary_guard(p) == p.type = "list" /\ p.list # <<>>

\* lines 291-302: the block printed, or nothing
summary_block(p, u) ==
    IF summary_guard(p)
    THEN <<[block |-> "summary",
            count |-> Len(p.list),
            total |-> total_citations_of(p.list),
            avg |-> avg_citations_of(p.list),
            most_cited |-> p.list[1].citations,
            undercited |-> Len(u)]>>
    ELSE <<>>

-----------------------------------------------------------------------------
(* The calls __main__ makes after get_publications, lines 284-302.         *)

DoPrintSorted ==
    /\ pc = "print_publications_sorted"
    /\ out' = Append(out, print_publications_sorted(publications))
    /\ pc' = "find_undercited_publications"
    /\ UNCHANGED <<scholar_url, catalogue, user_id, lang, start, accum, fetches, served,
                   publications, profile, metrics, row, pub, undercited,
                   current_year>>

DoFindUndercited(cy) ==
    /\ pc = "find_undercited_publications"
    /\ LET r == find_undercited_publications(publications, cy)
       IN  /\ publications' = [publications EXCEPT !.list = r.pubs]
           /\ undercited' = IF r.raised THEN undercited ELSE r.selected
           /\ pc' = IF r.raised THEN "ValueError" ELSE "print_undercited_publications"
    /\ current_year' = cy
    /\ UNCHANGED <<scholar_url, catalogue, user_id, lang, start, accum, fetches, served,
                   profile, metrics, row, pub, out>>

DoPrintUndercited ==
    /\ pc = "print_undercited_publications"
    /\ out' = Append(out, print_undercited_publications(
                              Deref(publications.list, undercited)))
    /\ pc' = "summary"
    /\ UNCHANGED <<scholar_url, catalogue, user_id, lang, start, accum, fetches, served,
                   publications, profile, metrics, row, pub, undercited,
                   current_year>>

DoSummary ==
    /\ pc = "summary"
    /\ out' = out \o summary_block(publications, undercited)
    /\ pc' = "done"
    /\ UNCHANGED <<scholar_url, catalogue, user_id, lang, start, accum, fetches, served,
                   publications, profile, metrics, row, pub, undercited,
                   current_year>>

-----------------------------------------------------------------------------
(* SpecViews: the views and the summary block applied, in the order of     *)
(* __main__, to every publication list of the input set and to an error    *)
(* result, with every current_year of CurrentYears.                        *)

Y2020 == <<"2", "0", "2", "0">>
Y2023 == <<"2", "0", "2", "3">>

ViewYears == {Y2020, Y2023, NA, <<"n", "d">>, <<SuperscriptTwo>>}
ViewCitations == {0, 1, 2}
CurrentYears == {2021, DefaultCurrentYear}

\* The record get_publications builds for the row at position i.
ViewPub(i, y, c) ==
    [title |-> <<ToString(i)>>, authors |-> <<"a">>, venue |-> <<"v">>,
     year |-> y, citations |-> c]

\* p is a list of up to MaxPubs records with the given years and counts.
IsListOver(p, years, counts) ==
    \E n \in 0..MaxPubs :
        \E ys \in [1..n -> years], cs \in [1..n -> counts] :
            p = ListResult([i \in 1..n |-> ViewPub(i, ys[i], cs[i])])

InitViews ==
    /\ pc = "print_publications_sorted"
    /\ scholar_url = <<>> /\ catalogue = "none" /\ user_id = <<>> /\ lang = <<>> /\ start = 0
    /\ accum = <<>> /\ fetches = <<>> /\ served = <<>>
    /\ \/ IsListOver(publications, ViewYears, ViewCitations)
       \/ publications = ErrorResult(<<"Request failed", "HTTPError">>)
    /\ profile = NoResult /\ metrics = NoResult
    /\ row = NoRow /\ pub = NoPub /\ undercited = <<>> /\ current_year = 0
    /\ out = <<>>

NextViews ==
    \/ DoPrintSorted
    \/ \E cy \in CurrentYears : DoFindUndercited(cy)
    \/ DoPrintUndercited
    \/ DoSummary

SpecViews == InitViews /\ [][NextViews]_vars

-----------------------------------------------------------------------------
(* get_publications, lines 66-157.                                         *)

\* re.search(key + r'=([^&]+)', url): the leftmost place where key and "="
\* are followed by a character other than "&"; the group runs up to the next
\* "&" or the end.
MatchPlaces(url, key) ==
    {p \in 1..Len(url) :
        /\ p + Len(key) + 1 <= Len(url)
        /\ SubSeq(url, p, p + Len(key)) = key \o <<"=">>
        /\ url[p + Len(key) + 1] # "&"}

re_search(url, key) ==
    IF MatchPlaces(url, key) = {} THEN [matched |-> FALSE, group |-> <<>>]
    ELSE LET p == CHOOSE q \in MatchPlaces(url, key) :
                      \A r \in MatchPlaces(url, key) : q <= r
             from == p + Len(key) + 1
             stop == CHOOSE e \in from..Len(url) :
                        /\ \A i \in from..e : url[i] # "&"
                        /\ e = Len(url) \/ url[e + 1] = "&"
         IN  [matched |-> TRUE, group |-> SubSeq(url, from, stop)]

\* line 80
lang_of(url) ==
    IF re_search(url, <<"h", "l">>).matched
    THEN re_search(url, <<"h", "l">>).group
    ELSE <<"e", "n">>

\* line 88: the request for the page at offset s
PageRequest(user, hl, s) ==
    [user |-> user, hl |-> hl, cstart |-> s, pagesize |-> page_size]

\* line 147 with <= for <
is_last_page_le(n) == n <= page_size

\* line 147
is_last_page(n) == n < page_size

\* line 150 advancing by the number of rows of the page less one
next_start_short(s) == s + page_size - 1

\* line 150
next_start(s) == s + page_size

\* lines 154-155 returning the rows accumulated so far
fetch_failed_partial(kind, rows) == ListResult(rows)

\* lines 154-155: the result when requests.get or raise_for_status raises
fetch_failed(kind, rows) == RequestFailed(kind)

\* The row the server holds at position k (from 1) of a profile's list.
CatalogueRow(c, k) ==
    IF c = "uncited"
    THEN [title |-> Elem(<<ToString(k)>>), grays |-> <<<<"a">>, <<"v">>>>,
          year |-> Elem(Y2023), cites |-> Absent]
    ELSE IF c = "odd"
    THEN [title |-> Elem(<<ToString(k)>>), grays |-> <<<<"a">>>>,
          year |-> IF k % 2 = 0 THEN Elem(<<SuperscriptTwo>>) ELSE Elem(Y2020),
          cites |-> Elem(<<"-", "7">>)]
    ELSE [title |-> IF k % 7 = 0 THEN Absent ELSE Elem(<<ToString(k)>>),
          grays |-> IF k % 3 = 0 THEN <<>>
                    ELSE IF k % 3 = 1 THEN <<<<"a">>>> ELSE <<<<"a">>, <<"v">>>>,
          year |-> IF k % 4 = 0 THEN Absent
                   ELSE IF k % 4 = 1 THEN Elem(Y2020)
                   ELSE IF k % 4 = 2 THEN Elem(Y2023) ELSE Elem(<<>>),
          cites |-> IF k % 5 = 0 THEN Absent
                    ELSE IF k % 5 = 1 THEN Elem(<<"7">>)
                    ELSE IF k % 5 = 2 THEN Elem(<<"x">>)
                    ELSE IF k % 5 = 3 THEN Elem(<<"0">>) ELSE Elem(<<"1">>)]

\* The page of n rows served for the request at offset s.
ServedRows(c, s, n) == [i \in 1..n |-> CatalogueRow(c, s + i)]

\* lines 101-144 for the rows of one page
ExtractRows(rows) == [i \in 1..Len(rows) |-> ExtractRow(rows[i])]

\* lines 66-84
GetPublicationsStart ==
    /\ pc = "get_publications"
    /\ IF re_search(scholar_url, <<"u", "s", "e", "r">>).matched
       THEN /\ user_id' = re_search(scholar_url, <<"u", "s", "e", "r">>).group
            /\ lang' = lang_of(scholar_url)
            /\ pc' = "fetch"
            /\ UNCHANGED publications
       ELSE /\ publications' = ErrorResult(<<"Could not extract user ID from URL">>)
            /\ pc' = "print_publications_sorted"
            /\ UNCHANGED <<user_id, lang>>
    /\ start' = 0
    /\ accum' = <<>>
    /\ UNCHANGED <<scholar_url, catalogue, fetches, served, profile, metrics,
                   row, pub, undercited, current_year, out>>

\* lines 86-152, one pass of the loop: the server answers with n rows
FetchPage(n) ==
    /\ pc = "fetch"
    /\ Len(fetches) < MaxPages
    /\ fetches' = Append(fetches, PageRequest(user_id, lang, start))
    /\ served' = Append(served, n)
    /\ LET pub_rows == ServedRows(catalogue, start, n)
       IN  IF pub_rows = <<>>
           THEN /\ publications' = ListResult(accum)
                /\ pc' = "print_publications_sorted"
                /\ UNCHANGED <<accum, start>>
           ELSE /\ accum' = accum \o ExtractRows(pub_rows)
                /\ IF is_last_page(Len(pub_rows))
                   THEN /\ publications' = ListResult(accum')
                        /\ pc' = "print_publications_sorted"
                        /\ UNCHANGED start
                   ELSE /\ start' = next_start(start)
                        /\ pc' = "fetch"
                        /\ UNCHANGED publications
    /\ UNCHANGED <<scholar_url, catalogue, user_id, lang, profile, metrics,
                   row, pub, undercited, current_year, out>>

\* lines 90-91 and 154-155, one pass of the loop: the request fails
FetchFail(kind) ==
    /\ pc = "fetch"
    /\ Len(fetches) < MaxPages
    /\ fetches' = Append(fetches, PageRequest(user_id, lang, start))
    /\ publications' = fetch_failed(kind, accum)
    /\ pc' = "print_publications_sorted"
    /\ UNCHANGED <<scholar_url, catalogue, user_id, lang, start, accum, served,
                   profile, metrics, row, pub, undercited, current_year, out>>

-----------------------------------------------------------------------------
(* Spec: the __main__ flow, lines 256-302.                                 *)

\* lines 264-277: the block printed for metrics
metrics_block(m) ==
    IF HasError(m)
    THEN [block |-> "metrics_error", error |-> Get(m.dict, "error")]
    ELSE [block |-> "metrics", values |-> m.dict]

\* lines 262-277
MainGetHIndex(page) ==
    /\ pc = "get_h_index"
    /\ profile' = page
    /\ metrics' = get_h_index(page)
    /\ out' = Append(out, metrics_block(metrics'))
    /\ pc' = "get_publications"
    /\ UNCHANGED <<scholar_url, catalogue, user_id, lang, start, accum,
                   fetches, served, publications, row, pub, undercited,
                   current_year>>

Urls ==
    {<<"?", "u", "s", "e", "r", "=", "A", "&", "h", "l", "=", "d", "e">>,
     <<"?", "u", "s", "e", "r", "=", "A">>,
     <<"?", "u", "s", "e", "r", "=", "&", "h", "l", "=", "d", "e">>,
     <<"?", "h", "l", "=", "d", "e">>}

Catalogues == {"mixed", "uncited", "odd"}

PageSizes == {0, 37, page_size, page_size + 1}

FailKinds == {"ConnectionError", "HTTPError"}

\* The profile pages of the __main__ flow: six cells, all inside the table.
MainProfilePages ==
    {ProfilePage(f, TRUE, Elem(<<"name">>), [i \in 1..6 |-> TRUE]) :
        f \in {"ok", "HTTPError"}}

Init ==
    /\ pc = "get_h_index"
    /\ scholar_url \in Urls
    /\ catalogue \in Catalogues
    /\ user_id = <<>> /\ lang = <<>> /\ start = 0
    /\ accum = <<>> /\ fetches = <<>> /\ served = <<>>
    /\ publications = NoResult /\ profile = NoResult /\ metrics = NoResult
    /\ row = NoRow /\ pub = NoPub /\ undercited = <<>> /\ current_year = 0
    /\ out = <<>>

Next ==
    \/ \E page \in MainProfilePages : MainGetHIndex(page)
    \/ GetPublicationsStart
    \/ \E n \in PageSizes : FetchPage(n)
    \/ \E kind \in FailKinds : FetchFail(kind)
    \/ DoPrintSorted
    \/ DoFindUndercited(DefaultCurrentYear)
    \/ DoPrintUndercited
    \/ DoSummary

Spec == Init /\ [][Next]_vars

-----------------------------------------------------------------------------
(* Claims about get_publications and the __main__ flow, checked under Spec *)

\* get_publications has returned and no view has run yet.
Returned == pc = "print_publications_sorted"

\* get_publications got past the user id (line 76).
Started == user_id # <<>>

\* A request of the loop failed: it was issued and no page came back.
FetchFailed == Len(fetches) > Len(served)

\* The number of rows of the pages before page j.
RECURSIVE RowsBefore(_)
RowsBefore(j) == IF j <= 1 THEN 0 ELSE RowsBefore(j - 1) + served[j - 1]

\* The page that holds position q of the concatenation of the pages served.
PageOf(q) ==
    CHOOSE j \in 1..Len(served) : RowsBefore(j) < q /\ q <= RowsBefore(j) + served[j]

\* The record of row i of page j, the page requested at offset 100 * (j - 1).
RecordOf(j, i) == ExtractRow(CatalogueRow(catalogue, 100 * (j - 1) + i))

\* C1: the list get_publications returns is the concatenation, in page order
\* and then row order, of the rows of every page fetched, the pages fetched
\* being those up to and including the first with fewer than 100 rows.
C1_ConcatenationOfPages ==
    (Returned /\ publications.type = "list") =>
        /\ Len(served) >= 1
        /\ served[Len(served)] < 100
        /\ \A j \in 1..(Len(served) - 1) : served[j] >= 100
        /\ Len(publications.list) = RowsBefore(Len(served) + 1)
        /\ \A q \in 1..Len(publications.list) :
               publications.list[q] = RecordOf(PageOf(q), q - RowsBefore(PageOf(q)))

\* Pages of 100, 100 and 37 rows were served and 237 rows returned.
C1_ThreePages ==
    /\ Returned
    /\ served = <<100, 100, 37>>
    /\ publications.type = "list"
    /\ Len(publications.list) = 237
    /\ publications.list[237].title = <<"237">>

\* C2: the k-th fetch of the loop asks for offset 100 * (k - 1); the loop
\* stops at the first page with fewer than 100 rows (zero included) or at a
\* failed fetch and issues no fetch after it; as long as every page served
\* has 100 rows or more and no fetch has failed, it has not returned.
C2_OffsetsAndStop ==
    /\ \A k \in 1..Len(fetches) :
           fetches[k].cstart = 100 * (k - 1) /\ fetches[k].pagesize = 100
    /\ Len(fetches) = Len(served) + (IF FetchFailed THEN 1 ELSE 0)
    /\ \A j \in 1..(Len(served) - 1) : served[j] >= 100
    /\ FetchFailed => \A j \in 1..Len(served) : served[j] >= 100
    /\ Started =>
           ((pc = "fetch") <=>
               (~FetchFailed /\ \A j \in 1..Len(served) : served[j] >= 100))

\* Three fetches were made, the last page was short, and the loop is over.
C2_StoppedAfterThird ==
    /\ Len(fetches) = 3
    /\ fetches[3].cstart = 200
    /\ served = <<100, 101, 0>>
    /\ pc = "done"

\* As many full pages were served as the model allows and the loop goes on.
C2_StillFetching ==
    /\ pc = "fetch"
    /\ Len(served) >= 3
    /\ \A j \in 1..Len(served) : served[j] = 100

\* get_publications returned, and the flow got as far as each state needs.
AfterGetPublications ==
    pc \notin {"get_h_index", "get_publications", "fetch"}

\* C6: when a fetch of any page fails or the user id cannot be extracted,
\* get_publications returns an error result, not a list; __main__ then
\* prints one diagnostic line, gets an empty undercited list, prints the
\* none-found block and no summary; and a failed get_h_index does not keep
\* get_publications from running.
C6_FailuresBecomeErrorResults ==
    /\ (AfterGetPublications /\ (FetchFailed \/ ~Started)) =>
           /\ HasError(publications)
           /\ publications.type # "list"
           /\ publications.list = <<>>
    /\ AfterGetPublications => publications.type \in {"list", "dict"}
    /\ HasError(publications) =>
           /\ pc # "ValueError"
           /\ undercited = <<>>
           /\ pc = "done" =>
                  /\ Len(out) = 3
                  /\ out[2] = [block |-> "error_line",
                               error |-> Get(publications.dict, "error")]
                  /\ out[3] = [block |-> "undercited_none"]
    /\ (HasError(metrics) /\ pc \in {"done", "ValueError"}) =>
           (~Started \/ Len(fetches) >= 1)

\* The second fetch failed after a full first page, get_h_index had failed
\* too, and the flow ended with the diagnostic and the none-found block.
C6_LaterPageFailed ==
    /\ pc = "done"
    /\ Len(served) = 1
    /\ Len(accum) >= 100
    /\ FetchFailed
    /\ HasError(metrics)
    /\ HasError(publications)
    /\ Len(out) = 3

-----------------------------------------------------------------------------
(* Claims about the views, checked under SpecViews.                        *)

\* How often x occurs in the sequence s.
Count(s, x) == Cardinality({i \in 1..Len(s) : s[i] = x})

SameMultiset(s, t) ==
    /\ Len(s) = Len(t)
    /\ \A i \in 1..Len(s) : Count(s, s[i]) = Count(t, s[i])

\* The first position of x in s.
PositionIn(s, x) == CHOOSE i \in 1..Len(s) : s[i] = x /\ \A j \in 1..(i - 1) : s[j] # x

PrintedList(pubs) == [i \in 1..Len(pubs) |-> Printed(pubs[i])]

\* C3: the ranking print_publications_sorted renders is a permutation of the
\* list (same multiset of entries), non-increasing by citation count, with
\* entries of equal count in their order of arrival.
C3_RankingSortedStable ==
    (Len(out) >= 1 /\ publications.type = "list") =>
        LET entries == out[1].entries
            arrived == PrintedList(publications.list)
        IN  /\ out[1].block = "ranking"
            /\ out[1].total = Len(arrived)
            /\ SameMultiset(entries, arrived)
            /\ \A i \in 1..Len(entries) : \A j \in (i + 1)..Len(entries) :
                   /\ entries[i].citations >= entries[j].citations
                   /\ entries[i].citations = entries[j].citations =>
                          PositionIn(arrived, entries[i]) < PositionIn(arrived, entries[j])

\* Two entries of equal count arrived around one of a larger count.
C3_TieAroundLarger ==
    /\ Len(out) >= 1
    /\ publications.type = "list"
    /\ Len(publications.list) = 3
    /\ publications.list[1].citations = 1
    /\ publications.list[2].citations = 2
    /\ publications.list[3].citations = 1
    /\ out[1].entries[1].title = <<"2">>
    /\ out[1].entries[2].title = <<"1">>
    /\ out[1].entries[3].title = <<"3">>

\* A year is strictly numeric: one or more of the digits 0 to 9.
StrictlyNumeric(y) == Len(y) > 0 /\ \A i \in 1..Len(y) : y[i] \in DecimalChars

YearNumber(y) == IntBodyValue(y, 0)

\* The record p is undercited in the year cy.
Undercited(p, cy) ==
    /\ StrictlyNumeric(p.year)
    /\ cy - YearNumber(p.year) > 0
    /\ p.citations < cy - YearNumber(p.year)

\* find_undercited_publications was called on a list.
FindCalled == current_year # 0 /\ publications.type = "list"

\* What the call returned is exactly the undercited records, in the order
\* of the list, each with age = current_year - year.
SelectionExact ==
    /\ \A k \in 1..Len(undercited) : \A m \in (k + 1)..Len(undercited) :
           undercited[k] < undercited[m]
    /\ {undercited[k] : k \in 1..Len(undercited)}
           = {i \in 1..Len(publications.list) :
                  Undercited(publications.list[i], current_year)}
    /\ \A k \in 1..Len(undercited) :
           LET p == publications.list[undercited[k]]
           IN  "age" \in DOMAIN p /\ p.age = current_year - YearNumber(p.year)

\* C4: for every list and every current_year find_undercited_publications
\* returns exactly the publications whose year is strictly numeric, whose
\* age = current_year - year is > 0 and whose citations are < age, in input
\* order, each carrying that age.
C4_UndercitedSelection ==
    FindCalled => (pc # "ValueError" /\ SelectionExact)

\* The selection is as C4 says whenever the call returns.
C4_SelectionWhenReturned ==
    (FindCalled /\ pc # "ValueError") => SelectionExact

\* The example of C4: (2020, 2), (2023, 1), (N/A, 0) in the year 2025.
C4_Example ==
    /\ FindCalled
    /\ current_year = 2025
    /\ Len(publications.list) = 3
    /\ publications.list[1].year = Y2020 /\ publications.list[1].citations = 2
    /\ publications.list[2].year = Y2023 /\ publications.list[2].citations = 1
    /\ publications.list[3].year = NA /\ publications.list[3].citations = 0
    /\ undercited = <<1, 2>>
    /\ publications.list[1].age = 5
    /\ publications.list[2].age = 2
    /\ "age" \notin DOMAIN publications.list[3]

\* print_undercited_publications has printed its block.
UndercitedPrinted == Len(out) >= 2

\* C5: for the list find_undercited_publications selected, the rendering of
\* print_undercited_publications is a permutation of it in non-increasing
\* order of deficit = age - citations, entries of equal deficit in their
\* original order; an empty selection renders the none-found message.
C5_UndercitedByDeficit ==
    UndercitedPrinted =>
        LET chosen == Deref(publications.list, undercited)
            given == [k \in 1..Len(chosen) |-> PrintedUndercited(chosen[k])]
        IN  IF undercited = <<>>
            THEN out[2] = [block |-> "undercited_none"]
            ELSE LET entries == out[2].entries
                 IN  /\ out[2].block = "undercited"
                     /\ out[2].total = Len(given)
                     /\ SameMultiset(entries, given)
                     /\ \A i \in 1..Len(entries) :
                            entries[i].deficit = entries[i].age - entries[i].citations
                     /\ \A i \in 1..Len(entries) : \A j \in (i + 1)..Len(entries) :
                            /\ entries[i].deficit >= entries[j].deficit
                            /\ entries[i].deficit = entries[j].deficit =>
                                   PositionIn(given, entries[i]) < PositionIn(given, entries[j])

\* Two selected entries of equal deficit came before one of a larger deficit.
C5_TieBeforeLarger ==
    /\ UndercitedPrinted
    /\ undercited = <<1, 2, 3>>
    /\ out[2].block = "undercited"
    /\ out[2].entries[1].title = <<"3">>
    /\ out[2].entries[2].title = <<"1">>
    /\ out[2].entries[3].title = <<"2">>
    /\ out[2].entries[2].deficit = out[2].entries[3].deficit

\* The flow of the views ended and the list was not an error result.
SummaryStepDone == pc = "done" /\ publications.type = "list"

SummaryPrinted == Len(out) = 3 /\ out[3].block = "summary"

\* C8 as stated: the average is the sum of the citation counts divided by
\* the number of publications, and is 0 exactly when that number is 0.
C8_AverageZeroIffEmpty ==
    SummaryStepDone =>
        LET n == Len(publications.list)
        IN  /\ n > 0 =>
                /\ SummaryPrinted
                /\ out[3].avg.num * n = SumCitations(publications.list, 1, n) * out[3].avg.den
            /\ SummaryPrinted => (out[3].avg.num = 0 <=> n = 0)

\* C8 as the code has it: for a non-empty list the summary block is printed
\* with average = sum / count, which is 0 exactly when the sum is 0; for an
\* empty list (or an error result) no summary block is printed, so nothing
\* is divided.
C8_AverageOfNonEmpty ==
    pc = "done" =>
        LET n == Len(publications.list)
        IN  IF publications.type = "list" /\ n > 0
            THEN /\ SummaryPrinted
                 /\ out[3].count = n
                 /\ out[3].total = SumCitations(publications.list, 1, n)
                 /\ out[3].avg.den > 0
                 /\ out[3].avg.num * n = out[3].total * out[3].avg.den
                 /\ (out[3].avg.num = 0) <=> (out[3].total = 0)
            ELSE Len(out) = 2

\* A summary with the average 4/3.
C8_FourThirds ==
    /\ pc = "done"
    /\ SummaryPrinted
    /\ out[3].count = 3
    /\ out[3].total = 4
    /\ out[3].avg = [num |-> 4, den |-> 3]

-----------------------------------------------------------------------------
(* SpecCalls: the three views called in any order, any number of times, on *)
(* a publication list.                                                     *)

CallYears == {Y2020, Y2023, <<"n", "d">>, <<SuperscriptTwo>>}
CallCitations == {0, 1}

InitCalls ==
    /\ pc = "idle"
    /\ scholar_url = <<>> /\ catalogue = "none" /\ user_id = <<>>
    /\ lang = <<>> /\ start = 0
    /\ accum = <<>> /\ fetches = <<>> /\ served = <<>>
    /\ IsListOver(publications, CallYears, CallCitations)
    /\ profile = NoResult /\ metrics = NoResult
    /\ row = NoRow /\ pub = NoPub /\ undercited = <<>> /\ current_year = 0
    /\ out = <<>>

\* print_publications_sorted(publications): line 172 sorts a copy
CallPrintSorted ==
    /\ out' = <<print_publications_sorted(publications)>>
    /\ pc' = "print_publications_sorted"
    /\ UNCHANGED <<scholar_url, catalogue, user_id, lang, start, accum,
                   fetches, served, publications, profile, metrics, row, pub,
                   undercited, current_year>>

\* undercited = find_undercited_publications(publications, cy)
CallFindUndercited(cy) ==
    /\ LET r == find_undercited_publications(publications, cy)
       IN  /\ publications' = [publications EXCEPT !.list = r.pubs]
           /\ undercited' = IF r.raised THEN undercited ELSE r.selected
           /\ pc' = IF r.raised THEN "ValueError" ELSE "find_undercited_publications"
    /\ current_year' = cy
    /\ UNCHANGED <<scholar_url, catalogue, user_id, lang, start, accum,
                   fetches, served, profile, metrics, row, pub, out>>

\* print_undercited_publications(undercited): lines 237-239 sort a copy
CallPrintUndercited ==
    /\ out' = <<print_undercited_publications(Deref(publications.list, undercited))>>
    /\ pc' = "print_undercited_publications"
    /\ UNCHANGED <<scholar_url, catalogue, user_id, lang, start, accum,
                   fetches, served, publications, profile, metrics, row, pub,
                   undercited, current_year>>

NextCalls ==
    \/ CallPrintSorted
    \/ \E cy \in CurrentYears : CallFindUndercited(cy)
    \/ CallPrintUndercited

SpecCalls == InitCalls /\ [][NextCalls]_vars

\* The record new is the record old with age set to a, and nothing else.
OnlyAgeSet(old, new, a) ==
    /\ DOMAIN new = DOMAIN old \cup {"age"}
    /\ new.age = a
    /\ \A k \in DOMAIN old \ {"age"} : new[k] = old[k]

\* C10: no call of a view changes the length or order of the accumulated
\* list or the title, authors, venue, year or citations of a record; a
\* record changes only in a call of find_undercited_publications that
\* selects it, and then only by having age set to current_year - year.
C10_OnlyAgeAnnotated ==
    [][/\ publications'.type = publications.type
       /\ Len(publications'.list) = Len(publications.list)
       /\ \A i \in 1..Len(publications.list) :
              LET old == publications.list[i]
                  new == publications'.list[i]
              IN  /\ Printed(new) = Printed(old)
                  /\ new # old =>
                         /\ pc' \in {"find_undercited_publications", "ValueError"}
                         /\ Undercited(old, current_year')
                         /\ OnlyAgeSet(old, new, current_year' - YearNumber(old.year))
                  /\ (pc' = "find_undercited_publications"
                          /\ i \notin {undercited'[k] : k \in 1..Len(undercited')}) =>
                         new = old]_vars

\* A record selected in 2025 kept its age of 5 through a call for 2021 that
\* did not select it, and through both renderings.
C10_StaleAgeKept ==
    /\ pc = "print_undercited_publications"
    /\ current_year = 2021
    /\ Len(publications.list) >= 2
    /\ publications.list[1].year = Y2020
    /\ publications.list[1].citations = 1
    /\ "age" \in DOMAIN publications.list[1]
    /\ publications.list[1].age = 5
    /\ undercited = <<2>>

=============================================================================
